---- MODULE Spec2Model ----
(***************************************************************************)
(* Model of notebooks/helper_functions.py: import_data (the line-by-line   *)
(* record decoder) and normalize_image_data (the global scaling of an      *)
(* image set).  plot_history only draws and has no state of interest.      *)
(*                                                                         *)
(* A text line is a sequence of tokens; a token is numeric (with its       *)
(* value) or not numeric.  Values are integers; the arithmetic of          *)
(* normalize_image_data is modelled exactly (rationals, plus the IEEE      *)
(* results nan/inf of a division by zero), without rounding.               *)
(***************************************************************************)
EXTENDS Integers, Sequences, FiniteSets

VARIABLES
    file,          \* the lines of the file at `path`
    num_samples,   \* <<>> for None, <<n>> when specified
    pos,           \* number of lines the loop has taken from the file
    images,        \* the four accumulator lists of import_data
    energies,
    positions,
    labels,
    pc,            \* "loop", "done" (returned), "raised" (exception left the call)
    exc,           \* <<>> or <<[type, line]>>: the exception that left import_data
    ret,           \* <<>> or <<the returned tuple>>
    norm_images,   \* the argument of normalize_image_data
    norm_pc,       \* "call", "done", "raised"
    norm_ret       \* <<>> or <<the returned image set>>

vars == <<file, num_samples, pos, images, energies, positions, labels, pc, exc,
          ret, norm_images, norm_pc, norm_ret>>

import_vars == <<file, num_samples, pos, images, energies, positions, labels, pc,
                 exc, ret>>

norm_vars == <<norm_images, norm_pc, norm_ret>>

----------------------------------------------------------------------------
(* Bounds of the explored inputs.                                          *)

MaxLines == 3

MaxSamples == 2

MaxPattern == 1

MaxImages == 2

ImgSize == 2

MaxValue == 2

----------------------------------------------------------------------------
(* Field layout used by import_data (0-based offsets, as in the source).   *)

ImageLen == 256

E1 == 256

X1 == 257

Y1 == 258

E2 == 259

X2 == 260

Y2 == 261

(* Number of fields the indexing of lines 40-42 needs: the largest index + 1 *)
RecordLen == Y2 + 1

----------------------------------------------------------------------------
(* Text lines.                                                             *)

Num(v) == [num |-> TRUE, val |-> v]

NotNum == [num |-> FALSE, val |-> 0]

(* The six trailing fields Energy1, Xpos1, Ypos1, Energy2, Xpos2, Ypos2 of *)
(* input line p: Energy2 is 0 for even p.                                  *)
LineTail(p) ==
    << 10 * p + 1, 10 * p + 2, 10 * p + 3,
       IF p % 2 = 0 THEN 0 ELSE 10 * p + 4,
       10 * p + 5, 10 * p + 6 >>

Pixel(p, j) == (p * j + j \div 3) % 3

GoodLine(p) ==
    [j \in 1..ImageLen |-> Num(Pixel(p, j))] \o [j \in 1..6 |-> Num(LineTail(p)[j])]

GoodLines == { GoodLine(p) : p \in 0..MaxPattern }

BaseLine == GoodLine(1)

ShortLine == SubSeq(BaseLine, 1, Len(BaseLine) - 1)

LongLine == Append(BaseLine, Num(7))

EmptyLine == << >>

BadInsideLine == [BaseLine EXCEPT ![3] = NotNum]

BadAfterLine == Append(BaseLine, NotNum)

Lines == GoodLines \cup {ShortLine, LongLine, EmptyLine, BadInsideLine, BadAfterLine}

Files == UNION { [1..n -> Lines] : n \in 0..MaxLines }

----------------------------------------------------------------------------
(* np.fromstring(line, sep=' ')                                            *)

AllNumeric(line) == \A i \in 1..Len(line) : line[i].num

FirstBad(line) ==
    IF AllNumeric(line) THEN Len(line) + 1
    ELSE CHOOSE i \in 1..Len(line) :
            ~line[i].num /\ \A j \in 1..(i - 1) : line[j].num

Parsed(line) == [i \in 1..(FirstBad(line) - 1) |-> line[i].val]

(* A line of numbers parses to its values.  At a token that is no number   *)
(* numpy stops: it returns what it parsed so far with a DeprecationWarning,*)
(* or raises ValueError where that warning is an error.                    *)
fromstring(line) ==
    IF AllNumeric(line)
    THEN { [ok |-> TRUE, arr |-> Parsed(line)] }
    ELSE { [ok |-> TRUE, arr |-> Parsed(line)], [ok |-> FALSE, arr |-> << >>] }

----------------------------------------------------------------------------
(* The body of the read loop.                                              *)

Image(v) == SubSeq(v, 1, IF Len(v) < ImageLen THEN Len(v) ELSE ImageLen)

EnergyAdjacent(v) == << v[E1 + 1], v[E1 + 2] >>

Energy(v) == << v[E1 + 1], v[E2 + 1] >>

Position(v) == << v[X1 + 1], v[Y1 + 1], v[X2 + 1], v[Y2 + 1] >>

LabelFromFirstEnergy(energy) == IF energy[1] = 0 THEN 0 ELSE 1

Label(energy) == IF energy[2] = 0 THEN 0 ELSE 1

(* Indexing v[256], v[259], v[257], v[258], v[260], v[261] is in range     *)
Indexable(v) == Len(v) >= RecordLen

(* np.array(list): the list's length and the shape of its elements         *)
NpArray(list, elemshape) ==
    [shape |-> IF list = << >> THEN <<0>> ELSE <<Len(list)>> \o elemshape,
     rows  |-> list]

Raise(type) ==
    /\ pc' = "raised"
    /\ exc' = << [type |-> type, line |-> pos + 1] >>
    /\ pos' = pos + 1
    /\ UNCHANGED <<file, num_samples, images, energies, positions, labels, ret>>
    /\ UNCHANGED norm_vars

DecodeLineNoLabel ==
    /\ pc = "loop"
    /\ pos < Len(file)
    /\ \E out \in fromstring(file[pos + 1]) :
          /\ out.ok
          /\ Indexable(out.arr)
          /\ images' = Append(images, Image(out.arr))
          /\ energies' = Append(energies, Energy(out.arr))
          /\ positions' = Append(positions, Position(out.arr))
          /\ labels' = IF Label(Energy(out.arr)) = 0 THEN labels ELSE Append(labels, 1)
    /\ pos' = pos + 1
    /\ UNCHANGED <<file, num_samples, pc, exc, ret>>
    /\ UNCHANGED norm_vars

DecodeLine ==
    /\ pc = "loop"
    /\ pos < Len(file)
    /\ \E out \in fromstring(file[pos + 1]) :
          /\ out.ok
          /\ Indexable(out.arr)
          /\ images' = Append(images, Image(out.arr))
          /\ energies' = Append(energies, Energy(out.arr))
          /\ positions' = Append(positions, Position(out.arr))
          /\ labels' = Append(labels, Label(Energy(out.arr)))
    /\ pos' = pos + 1
    /\ UNCHANGED <<file, num_samples, pc, exc, ret>>
    /\ UNCHANGED norm_vars

SkipLine ==
    /\ pc = "loop"
    /\ pos < Len(file)
    /\ \E out \in fromstring(file[pos + 1]) : out.ok /\ ~Indexable(out.arr)
    /\ pos' = pos + 1
    /\ UNCHANGED <<file, num_samples, images, energies, positions, labels, pc, exc, ret>>
    /\ UNCHANGED norm_vars

RaiseIndexError ==
    /\ pc = "loop"
    /\ pos < Len(file)
    /\ \E out \in fromstring(file[pos + 1]) : out.ok /\ ~Indexable(out.arr)
    /\ Raise("IndexError")

RaiseValueError ==
    /\ pc = "loop"
    /\ pos < Len(file)
    /\ \E out \in fromstring(file[pos + 1]) : ~out.ok
    /\ Raise("ValueError")

Return ==
    /\ pc = "loop"
    /\ pos = Len(file)
    /\ ret' = << [images    |-> NpArray(images, <<ImageLen>>),
                  energies  |-> NpArray(energies, <<2>>),
                  positions |-> NpArray(positions, <<4>>),
                  labels    |-> NpArray(labels, << >>)] >>
    /\ pc' = "done"
    /\ UNCHANGED <<file, num_samples, pos, images, energies, positions, labels, exc>>
    /\ UNCHANGED norm_vars

Init ==
    /\ file \in Files
    /\ num_samples \in { << >> } \cup { <<n>> : n \in 1..MaxSamples }
    /\ pos = 0
    /\ images = << >>
    /\ energies = << >>
    /\ positions = << >>
    /\ labels = << >>
    /\ pc = "loop"
    /\ exc = << >>
    /\ ret = << >>
    /\ norm_images = << >>
    /\ norm_pc = "idle"
    /\ norm_ret = << >>

Next ==
    \/ DecodeLine
    \/ RaiseIndexError
    \/ RaiseValueError
    \/ Return

Spec == Init /\ [][Next]_vars

----------------------------------------------------------------------------
(* Arithmetic of normalize_image_data: exact rationals num/den (den > 0),  *)
(* and nan, inf, -inf for the results of a division by zero.               *)

Abs(x) == IF x < 0 THEN -x ELSE x

RECURSIVE GCD(_, _)
GCD(a, b) == IF b = 0 THEN a ELSE GCD(b, a % b)

Rat(p, q) ==
    LET g == GCD(Abs(p), Abs(q))
        s == IF q < 0 THEN -1 ELSE 1
    IN  [kind |-> "fin", num |-> (s * p) \div g, den |-> (s * q) \div g]

NaN == [kind |-> "nan", num |-> 0, den |-> 0]

Inf == [kind |-> "inf", num |-> 1, den |-> 0]

NegInf == [kind |-> "inf", num |-> -1, den |-> 0]

FromInt(x) == Rat(x, 1)

FSub(a, b) == Rat(a.num * b.den - b.num * a.den, a.den * b.den)

FDiv(a, b) ==
    IF b.num = 0
    THEN IF a.num = 0 THEN NaN ELSE IF a.num > 0 THEN Inf ELSE NegInf
    ELSE Rat(a.num * b.den, a.den * b.num)

RECURSIVE Flatten(_)
Flatten(imgs) == IF imgs = << >> THEN << >> ELSE Head(imgs) \o Flatten(Tail(imgs))

RECURSIVE SeqSum(_)
SeqSum(a) == IF a = << >> THEN 0 ELSE Head(a) + SeqSum(Tail(a))

Values(a) == { a[i] : i \in 1..Len(a) }

amax(a) == CHOOSE m \in Values(a) : \A x \in Values(a) : m >= x

amin(a) == CHOOSE m \in Values(a) : \A x \in Values(a) : m <= x

meanFloor(a) == FromInt(SeqSum(a) \div Len(a))

mean(a) == FDiv(FromInt(SeqSum(a)), FromInt(Len(a)))

img_term(imgs) == amax(Flatten(imgs)) - amin(Flatten(imgs))

img_mean(imgs) == mean(Flatten(imgs))

Scaled(imgs) ==
    LET m == img_mean(imgs)
        t == FromInt(img_term(imgs))
    IN  [i \in 1..Len(imgs) |->
            [j \in 1..Len(imgs[i]) |-> FDiv(FSub(FromInt(imgs[i][j]), m), t)]]

(* np.amax of an array without elements raises ValueError                  *)
NormalizeRaise ==
    /\ norm_pc = "call"
    /\ Flatten(norm_images) = << >>
    /\ norm_pc' = "raised"
    /\ UNCHANGED <<norm_images, norm_ret>>
    /\ UNCHANGED import_vars

normalize_image_data ==
    /\ norm_pc = "call"
    /\ Flatten(norm_images) # << >>
    /\ norm_ret' = << Scaled(norm_images) >>
    /\ norm_pc' = "done"
    /\ UNCHANGED norm_images
    /\ UNCHANGED import_vars

ImageSets == UNION { [1..n -> [1..ImgSize -> 0..MaxValue]] : n \in 0..MaxImages }

InitNorm ==
    /\ norm_images \in ImageSets
    /\ norm_pc = "call"
    /\ norm_ret = << >>
    /\ file = << >>
    /\ num_samples = << >>
    /\ pos = 0
    /\ images = << >>
    /\ energies = << >>
    /\ positions = << >>
    /\ labels = << >>
    /\ pc = "idle"
    /\ exc = << >>
    /\ ret = << >>

NextNorm ==
    \/ normalize_image_data
    \/ NormalizeRaise

SpecNorm == InitNorm /\ [][NextNorm]_vars

----------------------------------------------------------------------------
(* Properties of import_data.                                              *)

Field(line, offset) == line[offset + 1].val

WellFormed(line) == Len(line) = 262 /\ \A i \in 1..Len(line) : line[i].num

WellFormedFile == \A k \in 1..Len(file) : WellFormed(file[k])

Count(seq, x) == Cardinality({ i \in 1..Len(seq) : seq[i] = x })

(* C1: a file whose lines all have exactly 262 numeric fields is returned   *)
(* as four collections whose lengths equal the number of lines; while the   *)
(* loop runs, after k lines all four accumulators have length k.            *)
C1_LengthsEqualLines ==
    /\ pc \in {"loop", "done"} =>
          /\ Len(images) = pos
          /\ Len(energies) = pos
          /\ Len(positions) = pos
          /\ Len(labels) = pos
    /\ WellFormedFile => pc # "raised"
    /\ (pc = "done" /\ WellFormedFile) =>
          /\ Len(ret[1].images.rows) = Len(file)
          /\ Len(ret[1].energies.rows) = Len(file)
          /\ Len(ret[1].positions.rows) = Len(file)
          /\ Len(ret[1].labels.rows) = Len(file)

C1_Witness == pc = "done" /\ WellFormedFile /\ Len(file) = 2

(* C2: every label is 0 or 1, and it is 1 exactly when the record's second  *)
(* energy value, the field at offset 259 of its line, is not 0.             *)
C2_LabelIffEnergy2 ==
    /\ \A i \in 1..Len(labels) :
          /\ labels[i] \in {0, 1}
          /\ energies[i][2] = Field(file[i], 259)
          /\ labels[i] = 1 <=> Field(file[i], 259) # 0
    /\ pc = "done" =>
          \A i \in 1..Len(ret[1].labels.rows) :
             /\ ret[1].labels.rows[i] \in {0, 1}
             /\ ret[1].energies.rows[i][2] = Field(file[i], 259)
             /\ ret[1].labels.rows[i] = 1 <=> Field(file[i], 259) # 0

C2_Witness ==
    /\ pc = "done"
    /\ Count(ret[1].labels.rows, 0) > 0
    /\ Count(ret[1].labels.rows, 1) > 0

(* C3: for a well-formed file, element i of every output is decoded from    *)
(* line i: the image is fields 0..255, the energies are fields 256 and 259, *)
(* the positions are fields 257, 258, 260, 261.                             *)
C3_ElementFromItsLine ==
    (pc = "done" /\ WellFormedFile) =>
        /\ Len(ret[1].images.rows) = Len(file)
        /\ \A i \in 1..Len(file) :
              /\ ret[1].images.rows[i] = [j \in 1..256 |-> Field(file[i], j - 1)]
              /\ ret[1].energies.rows[i] = << Field(file[i], 256), Field(file[i], 259) >>
              /\ ret[1].positions.rows[i] =
                    << Field(file[i], 257), Field(file[i], 258),
                       Field(file[i], 260), Field(file[i], 261) >>

C3_Witness ==
    /\ pc = "done"
    /\ WellFormedFile
    /\ Len(file) = 2
    /\ ret[1].images.rows[1] # ret[1].images.rows[2]
    /\ ret[1].energies.rows[1] # ret[1].energies.rows[2]

(* C4: every returned image is a 16x16 grid: the image array of a file of   *)
(* n > 0 lines has shape (n, 16, 16).                                       *)
C4_ImagesAre16x16 ==
    (pc = "done" /\ Len(file) > 0) => ret[1].images.shape = << Len(file), 16, 16 >>

(* C5: a file with a line whose number of fields is not exactly 262 is      *)
(* never returned as a dataset: import_data raises.                         *)
C5_WrongFieldCountRaises ==
    pc = "done" => \A k \in 1..Len(file) : Len(file[k]) = 262

(* Number of lines of the file whose label is l.                           *)
LinesLabelled(l) ==
    Cardinality({ k \in 1..Len(file) : (Field(file[k], 259) = 0) <=> (l = 0) })

(* C9: when num_samples is specified, the returned collections hold         *)
(* num_samples records, as many with label 0 as with label 1.  Stated for   *)
(* the files that have such a selection: well-formed, num_samples even,     *)
(* with at least num_samples / 2 lines of either label.                     *)
C9_BalancedSelection ==
    ( /\ pc = "done"
      /\ num_samples # << >>
      /\ WellFormedFile
      /\ num_samples[1] % 2 = 0
      /\ 2 * LinesLabelled(0) >= num_samples[1]
      /\ 2 * LinesLabelled(1) >= num_samples[1] ) =>
        /\ Len(ret[1].labels.rows) = num_samples[1]
        /\ Len(ret[1].images.rows) = num_samples[1]
        /\ Count(ret[1].labels.rows, 0) = Count(ret[1].labels.rows, 1)

(* Every outcome of decoding the line raises: fewer than 262 numbers can    *)
(* be read from it.                                                         *)
MustRaise(line) ==
    \E i \in 1..262 : i > Len(line) \/ ~line[i].num

(* C10: when decoding line k raises, the call ends with that exception: no  *)
(* dataset is returned, line k is not skipped and no later line is taken    *)
(* from the file.                                                           *)
C10_ErrorAbortsImport ==
    /\ exc # << >> =>
          /\ pc = "raised"
          /\ ret = << >>
          /\ pos = exc[1].line
    /\ pc = "raised" => exc # << >>
    /\ \A k \in 1..pos : MustRaise(file[k]) => (exc # << >> /\ exc[1].line = k)

C10_Witness ==
    /\ pc = "raised"
    /\ exc[1].line = 2
    /\ Len(file) = 3
    /\ Len(images) = 1

----------------------------------------------------------------------------
(* Properties of normalize_image_data.                                     *)

Pixels(imgs) == { <<i, j>> : i \in 1..Len(imgs), j \in 1..ImgSize }

PixelValues(imgs) == { imgs[p[1]][p[2]] : p \in Pixels(imgs) }

GlobalMax(imgs) == CHOOSE m \in PixelValues(imgs) : \A x \in PixelValues(imgs) : x <= m

GlobalMin(imgs) == CHOOSE m \in PixelValues(imgs) : \A x \in PixelValues(imgs) : m <= x

RECURSIVE Total(_)
Total(imgs) == IF imgs = << >> THEN 0 ELSE SeqSum(Head(imgs)) + Total(Tail(imgs))

NonEmpty(imgs) == Pixels(imgs) # {}

Degenerate(imgs) == NonEmpty(imgs) /\ GlobalMax(imgs) = GlobalMin(imgs)

C7_DegenerateRangeRaises ==
    Degenerate(norm_images) => (norm_pc # "done" /\ norm_ret = << >>)

(* C8: for a non-degenerate set every returned value lies in [0, 1].        *)
C8_ValuesInUnitInterval ==
    (norm_pc = "done" /\ ~Degenerate(norm_images)) =>
        \A i \in 1..Len(norm_ret[1]) : \A j \in 1..Len(norm_ret[1][i]) :
            /\ norm_ret[1][i][j].kind = "fin"
            /\ 0 <= norm_ret[1][i][j].num
            /\ norm_ret[1][i][j].num <= norm_ret[1][i][j].den

====
